---- MODULE Spec2Model ----
(***************************************************************************)
(* Model of src/plugin.rs of bevy_svg: the two systems of Stage::SVG,      *)
(* svg_mesh_linker and set_svg_meshes, running once per frame over the     *)
(* asset store Assets<Svg>, the mesh store Assets<Mesh>, the asset event   *)
(* queue and the entities that carry a Handle<Svg>.                        *)
(***************************************************************************)
EXTENDS Integers, FiniteSets, Sequences

\* ------------------------------------------------------------- bounds
NumHandles == 2      \* document handles Handle<Svg>
MaxEntities == 2     \* entity ids
MaxMeshes == 3       \* meshes the loader generates in one run
MaxOps == 4          \* world changes made by the application in one run

Handles == 1..NumHandles
Entities == 1..MaxEntities
MeshIds == 1..MaxMeshes

\* ------------------------------------------------------------- values
\* svgs.get(handle) == None: no document stored under the handle
Absent == -1
\* Option<&mut Mesh2dHandle> / Option<&mut Handle<Mesh>> == None: the entity
\* has no such attachment component
NoComp == -2
\* the handle a freshly inserted attachment component holds before a system
\* writes it; it names no mesh of the store
DefaultMesh == 0

\* A slot of the entity table that holds no live entity
NoEntity == [alive |-> FALSE, svg |-> 1, mesh_2d |-> NoComp, mesh_3d |-> NoComp,
             parent |-> 0, changed |-> FALSE]

VARIABLES
    svgs,        \* Assets<Svg>: handle -> the document's mesh handle, or Absent
    meshes,      \* Assets<Mesh>: the set of mesh handles present in the store
    nextMesh,    \* the next mesh handle the loader hands out
    ents,        \* entity table: id -> [alive, svg, mesh_2d, mesh_3d, parent, changed]
    sent,        \* asset events sent in this frame, delivered at the frame's end
    svg_events,  \* asset events the EventReader of svg_mesh_linker has yet to read
    commands,    \* deferred despawn_recursive commands of this stage
    phase,       \* "Update", "SVG" (a system has run), "Post", or "Aborted"
    linker,      \* svg_mesh_linker in this stage: "idle", "running", "done"
    setDone,     \* set_svg_meshes has run in this stage
    todo,        \* entities the running Modified loop has yet to visit
    ops,         \* world changes made so far
    \* history of the current frame, for stating the properties
    prevMesh,    \* handle -> the mesh the document had before its last change
    created,     \* handles whose Created event was processed, document present
    modified,    \* handles whose Modified event was processed, document present
    removed,     \* handles whose Removed event was processed
    released,    \* meshes removed from the store by the running/last handler
    visited,     \* entities set_svg_meshes visited (reference marked changed)
    written,     \* <<entity, kind>>: attachments set_svg_meshes wrote in this stage
    gone,        \* entities despawned when the stage's commands were applied
    stale        \* entities whose attachment was stale when the last frame ended

vars == <<svgs, meshes, nextMesh, ents, sent, svg_events, commands, phase, linker,
          setDone, todo, ops, prevMesh, created, modified, removed, released,
          visited, written, gone, stale>>

world == <<svgs, meshes, nextMesh, ents, sent, ops, prevMesh>>
stage == <<svg_events, commands, linker, setDone, todo, created, modified, removed,
           released, visited, written, gone>>

\* ------------------------------------------------------------- helpers
Alive == {e \in Entities : ents[e].alive}

\* query.iter_mut().filter(|(_, svg, ..)| svg == &handle)
Matching(h) == {e \in Alive : ents[e].svg = h}

\* The attachment handles an entity record carries
Attached(ent) == {ent.mesh_2d, ent.mesh_3d} \ {NoComp}

Event(kind, h) == [kind |-> kind, handle |-> h]

\* ------------------------------------------------------------- loop bodies
\* A Created loop body that binds only attachments nothing was bound to yet
CreatedBodyDefault(ent, mesh) ==
    [ent EXCEPT !.mesh_2d = IF @ = DefaultMesh THEN mesh ELSE @,
                !.mesh_3d = IF @ = DefaultMesh THEN mesh ELSE @]

\* A Created loop body that inserts the attachment components it does not find
CreatedBodyInsert(ent, mesh) ==
    [ent EXCEPT !.mesh_2d = mesh, !.mesh_3d = mesh]

\* A Created loop body that forgets the 3D attachment
CreatedBodyOnly2d(ent, mesh) ==
    [ent EXCEPT !.mesh_2d = IF @ = NoComp THEN @ ELSE mesh]

\* AssetEvent::Created: both attachments, where present, are overwritten
CreatedBody(ent, mesh) ==
    [ent EXCEPT !.mesh_2d = IF @ = NoComp THEN @ ELSE mesh,
                !.mesh_3d = IF @ = NoComp THEN @ ELSE mesh]

\* A Modified loop body that forgets the 3D attachment
ModifiedBodyOnly2d(ent, mesh) ==
    [ent EXCEPT !.mesh_2d = IF @ # NoComp /\ @ # mesh THEN mesh ELSE @]

\* AssetEvent::Modified: an attachment that differs from svg.mesh is repointed
ModifiedBody(ent, mesh) ==
    [ent EXCEPT !.mesh_2d = IF @ # NoComp /\ @ # mesh THEN mesh ELSE @,
                !.mesh_3d = IF @ # NoComp /\ @ # mesh THEN mesh ELSE @]

\* A Modified loop body that calls meshes.remove without the filter
ModifiedRemovesAll(ent, mesh) == Attached(ent)

\* A Modified loop body that removes the mesh the document had before
ModifiedRemovesPrev(ent, mesh) == {prevMesh[ent.svg]} \ {mesh}

\* AssetEvent::Modified: the old handles given to meshes.remove
ModifiedRemoves(ent, mesh) == Attached(ent) \ {mesh}

\* A set_svg_meshes loop body that forgets the 3D attachment
SetBodyOnly2d(ent, mesh) ==
    [ent EXCEPT !.mesh_2d = IF @ # NoComp /\ @ # mesh THEN mesh ELSE @]

\* set_svg_meshes: an attachment that differs from svg.mesh is repointed
SetBody(ent, mesh) ==
    [ent EXCEPT !.mesh_2d = IF @ # NoComp /\ @ # mesh THEN mesh ELSE @,
                !.mesh_3d = IF @ # NoComp /\ @ # mesh THEN mesh ELSE @]

\* A Removed loop whose query requires the 2D attachment component
RemovedCommandsAttached(h) == {e \in Matching(h) : ents[e].mesh_2d # NoComp}

\* A Removed loop without the filter on the document reference
RemovedCommandsAll(h) == Alive

\* AssetEvent::Removed: the entities given to despawn_recursive
RemovedCommands(h) == Matching(h)

\* The entity table after the whole Created loop for handle h
CreatedTable(table, h) ==
    [e \in Entities |->
        IF table[e].alive /\ table[e].svg = h THEN CreatedBody(table[e], svgs[h])
        ELSE table[e]]

\* The entity table after the whole Modified loop for handle h
ModifiedTable(table, h) ==
    [e \in Entities |->
        IF table[e].alive /\ table[e].svg = h THEN ModifiedBody(table[e], svgs[h])
        ELSE table[e]]

\* set_svg_meshes: the attachments the loop body assigns to (the closures
\* given to map run only for a component that passed the filter)
SetWrites(ent, mesh) ==
    {k \in {"2d", "3d"} :
        LET old == IF k = "2d" THEN ent.mesh_2d ELSE ent.mesh_3d
        IN old # NoComp /\ old # mesh}

\* A set_svg_meshes that does not look whether the document is present
SetMeshesAlways(table, q) ==
    [e \in Entities |->
        IF e \in q THEN SetBody(table[e], svgs[table[e].svg]) ELSE table[e]]

\* The entity table after set_svg_meshes has visited the entities of q
SetMeshes(table, q) ==
    [e \in Entities |->
        IF e \in q /\ svgs[table[e].svg] # Absent
        THEN SetBody(table[e], svgs[table[e].svg])
        ELSE table[e]]

\* The attachments set_svg_meshes assigns to while visiting the entities of q
SetWritten(table, q) ==
    {w \in q \X {"2d", "3d"} :
        /\ svgs[table[w[1]].svg] # Absent
        /\ w[2] \in SetWrites(table[w[1]], svgs[table[w[1]].svg])}

\* ------------------------------------------------------------- initial state
Init ==
    /\ svgs = [h \in Handles |-> Absent]
    /\ meshes = {}
    /\ nextMesh = 1
    /\ ents = [e \in Entities |-> NoEntity]
    /\ sent = <<>>
    /\ svg_events = <<>>
    /\ commands = {}
    /\ phase = "Update"
    /\ linker = "idle"
    /\ setDone = FALSE
    /\ todo = {}
    /\ ops = 0
    /\ prevMesh = [h \in Handles |-> Absent]
    /\ created = {}
    /\ modified = {}
    /\ removed = {}
    /\ released = {}
    /\ visited = {}
    /\ written = {}
    /\ gone = {}
    /\ stale = {}

\* ------------------------------------------------------------- the application
\* The application and the asset subsystem act between two runs of Stage::SVG.
CanAct == phase = "Update" /\ ops < MaxOps

\* Handles are interchangeable: a handle the state does not know yet is taken
\* into use only after the one before it.
Known(h) == svgs[h] # Absent \/ prevMesh[h] # Absent \/ Matching(h) # {}
Usable(h) == IF h = 1 THEN TRUE ELSE Known(h) \/ Known(h - 1)

StageUnchanged == UNCHANGED <<stage, phase, stale>>

\* A document is stored under h (first load, or hot reload) with a freshly
\* generated mesh; the store reports Created for a new entry, Modified otherwise.
LoadSvg ==
    /\ CanAct
    /\ \E h \in Handles :
        /\ Usable(h)
        /\ nextMesh <= MaxMeshes
        /\ svgs' = [svgs EXCEPT ![h] = nextMesh]
        /\ meshes' = meshes \cup {nextMesh}
        /\ nextMesh' = nextMesh + 1
        /\ prevMesh' = [prevMesh EXCEPT ![h] = svgs[h]]
        /\ sent' = Append(sent, Event(IF svgs[h] = Absent THEN "Created" ELSE "Modified", h))
        /\ ops' = ops + 1
        /\ UNCHANGED ents
        /\ StageUnchanged

\* The document stored under h is removed from the asset store.
RemoveSvg ==
    /\ CanAct
    /\ \E h \in Handles :
        /\ svgs[h] # Absent
        /\ svgs' = [svgs EXCEPT ![h] = Absent]
        /\ prevMesh' = [prevMesh EXCEPT ![h] = svgs[h]]
        /\ sent' = Append(sent, Event("Removed", h))
        /\ ops' = ops + 1
        /\ UNCHANGED <<meshes, nextMesh, ents>>
        /\ StageUnchanged

\* The entity table with a new entity in its first free slot
Spawned(h, m2, m3, p) ==
    LET e == CHOOSE x \in Entities \ Alive : \A y \in Entities \ Alive : x <= y
    IN [ents EXCEPT ![e] = [alive |-> TRUE, svg |-> h, mesh_2d |-> m2,
                            mesh_3d |-> m3, parent |-> p, changed |-> TRUE]]

\* The attachment components of a spawned root entity: none, those of a 2D
\* bundle or those of a 3D bundle. (Further attachment components are inserted
\* by InsertMesh2d and InsertMesh3d.)
Bundles == {<<NoComp, NoComp>>, <<DefaultMesh, NoComp>>, <<NoComp, DefaultMesh>>}

\* A root entity is spawned with a document reference.
Spawn ==
    /\ CanAct
    /\ \E h \in Handles, b \in Bundles :
        /\ Usable(h)
        /\ Alive # Entities
        /\ ents' = Spawned(h, b[1], b[2], 0)
        /\ ops' = ops + 1
        /\ UNCHANGED <<svgs, meshes, nextMesh, sent, prevMesh>>
        /\ StageUnchanged

\* A bare child of a live entity is spawned with a document reference.
SpawnChild ==
    /\ CanAct
    /\ \E h \in Handles, p \in Entities :
        /\ Usable(h)
        /\ Alive # Entities
        /\ p \in Alive
        /\ ents' = Spawned(h, NoComp, NoComp, p)
        /\ ops' = ops + 1
        /\ UNCHANGED <<svgs, meshes, nextMesh, sent, prevMesh>>
        /\ StageUnchanged

\* The document reference of a live entity is changed to another handle.
SetHandle ==
    /\ CanAct
    /\ \E e \in Entities, h \in Handles :
        /\ Usable(h)
        /\ e \in Alive
        /\ ents[e].svg # h
        /\ ents' = [ents EXCEPT ![e].svg = h, ![e].changed = TRUE]
        /\ ops' = ops + 1
        /\ UNCHANGED <<svgs, meshes, nextMesh, sent, prevMesh>>
        /\ StageUnchanged

\* An attachment component is inserted on a live entity that lacks it.
InsertMesh2d ==
    /\ CanAct
    /\ \E e \in Entities :
        /\ e \in Alive
        /\ ents[e].mesh_2d = NoComp
        /\ ents' = [ents EXCEPT ![e].mesh_2d = DefaultMesh]
        /\ ops' = ops + 1
        /\ UNCHANGED <<svgs, meshes, nextMesh, sent, prevMesh>>
        /\ StageUnchanged

InsertMesh3d ==
    /\ CanAct
    /\ \E e \in Entities :
        /\ e \in Alive
        /\ ents[e].mesh_3d = NoComp
        /\ ents' = [ents EXCEPT ![e].mesh_3d = DefaultMesh]
        /\ ops' = ops + 1
        /\ UNCHANGED <<svgs, meshes, nextMesh, sent, prevMesh>>
        /\ StageUnchanged

\* ------------------------------------------------------------- Stage::SVG
\* The schedule reaches Stage::SVG, which holds both systems, after
\* CoreStage::Update: the first system to start ends the Update phase. Two
\* systems of one parallel stage that both write the attachment components
\* never overlap; no order between them is declared.
LinkerMayRun == phase \in {"Update", "SVG"} /\ linker # "done"
SetMayRun == phase \in {"Update", "SVG"} /\ ~setDone /\ linker # "running"

\* A linker that returns after the first event of the batch
LinkerAfterFirst(rest) == "done"

LinkerAfter(rest) == IF rest = <<>> THEN "done" ELSE "running"

Panic ==
    /\ phase' = "Aborted"
    /\ UNCHANGED <<world, stage, stale>>

\* svg_mesh_linker with no event to read
LinkerNoEvents ==
    /\ LinkerMayRun
    /\ svg_events = <<>>
    /\ linker' = "done"
    /\ phase' = "SVG"
    /\ UNCHANGED <<world, stale, svg_events, commands, setDone, todo, created,
                   modified, removed, released, visited, written, gone>>

\* AssetEvent::Created { handle }
OnCreated ==
    /\ LinkerMayRun
    /\ svg_events # <<>>
    /\ Head(svg_events).kind = "Created"
    /\ LET h == Head(svg_events).handle
       IN IF Matching(h) # {} /\ svgs[h] = Absent
          THEN Panic
          ELSE /\ ents' = CreatedTable(ents, h)
               /\ svg_events' = Tail(svg_events)
               /\ linker' = LinkerAfter(Tail(svg_events))
               /\ created' = IF svgs[h] # Absent THEN created \cup {h} ELSE created
               /\ released' = {}
               /\ phase' = "SVG"
               /\ UNCHANGED <<svgs, meshes, nextMesh, sent, ops, prevMesh, commands,
                              setDone, todo, modified, removed, visited, written, gone,
                              stale>>

\* AssetEvent::Modified { handle }: one step is one iteration of the loop
\* over the matching entities; the event is consumed with the last one.
OnModified ==
    /\ LinkerMayRun
    /\ svg_events # <<>>
    /\ Head(svg_events).kind = "Modified"
    /\ LET h == Head(svg_events).handle
           loop == IF todo # {} THEN todo ELSE Matching(h)
           before == IF todo # {} THEN released ELSE {}
       IN IF loop = {}
          THEN /\ svg_events' = Tail(svg_events)
               /\ linker' = LinkerAfter(Tail(svg_events))
               /\ modified' = IF svgs[h] # Absent THEN modified \cup {h} ELSE modified
               /\ released' = {}
               /\ phase' = "SVG"
               /\ UNCHANGED <<world, commands, setDone, todo, created, removed,
                              visited, written, gone, stale>>
          ELSE IF svgs[h] = Absent
          THEN Panic
          ELSE \E e \in loop :
               /\ ents' = [ents EXCEPT ![e] = ModifiedBody(@, svgs[h])]
               /\ meshes' = meshes \ ModifiedRemoves(ents[e], svgs[h])
               /\ released' = before \cup (meshes \cap ModifiedRemoves(ents[e], svgs[h]))
               /\ todo' = loop \ {e}
               /\ IF loop = {e}
                  THEN /\ svg_events' = Tail(svg_events)
                       /\ linker' = LinkerAfter(Tail(svg_events))
                       /\ modified' = modified \cup {h}
                  ELSE /\ linker' = "running"
                       /\ UNCHANGED <<svg_events, modified>>
               /\ phase' = "SVG"
               /\ UNCHANGED <<svgs, nextMesh, sent, ops, prevMesh, commands, setDone,
                              created, removed, visited, written, gone, stale>>

\* AssetEvent::Removed { handle }
OnRemoved ==
    /\ LinkerMayRun
    /\ svg_events # <<>>
    /\ Head(svg_events).kind = "Removed"
    /\ LET h == Head(svg_events).handle
       IN /\ commands' = commands \cup RemovedCommands(h)
          /\ removed' = removed \cup {h}
    /\ svg_events' = Tail(svg_events)
    /\ linker' = LinkerAfter(Tail(svg_events))
    /\ released' = {}
    /\ phase' = "SVG"
    /\ UNCHANGED <<world, setDone, todo, created, modified, visited, written, gone,
                   stale>>

svg_mesh_linker == LinkerNoEvents \/ OnCreated \/ OnModified \/ OnRemoved

\* The entities the query of set_svg_meshes yields: Changed<Handle<Svg>>
ChangedQuery == {e \in Alive : ents[e].changed}

set_svg_meshes ==
    /\ SetMayRun
    /\ ents' = [e \in Entities |->
                  [SetMeshes(ents, ChangedQuery)[e] EXCEPT !.changed = FALSE]]
    /\ visited' = ChangedQuery
    /\ written' = SetWritten(ents, ChangedQuery)
    /\ setDone' = TRUE
    /\ phase' = "SVG"
    /\ UNCHANGED <<svgs, meshes, nextMesh, sent, ops, prevMesh, svg_events, commands,
                   linker, todo, created, modified, removed, released, gone, stale>>

\* despawn_recursive: the commanded entities and all their descendants
RECURSIVE Subtree(_)
Subtree(S) ==
    LET C == {e \in Alive : ents[e].parent \in S}
    IN IF C \subseteq S THEN S ELSE Subtree(S \cup C)

\* An attachment of a live entity differs from the mesh of its Ready document
IsStale(ent) ==
    /\ ent.alive
    /\ svgs[ent.svg] # Absent
    /\ Attached(ent) \ {svgs[ent.svg]} # {}

\* The stage ends: the deferred commands are applied.
ApplyCommands ==
    /\ phase = "SVG"
    /\ linker = "done"
    /\ setDone
    /\ LET after == [e \in Entities |->
                        IF e \in Subtree(commands) THEN NoEntity ELSE ents[e]]
       IN /\ ents' = after
          /\ gone' = Subtree(commands)
    /\ commands' = {}
    /\ phase' = "Post"
    /\ written' = {}
    /\ UNCHANGED <<svgs, meshes, nextMesh, sent, ops, prevMesh, svg_events, linker,
                   setDone, todo, created, modified, removed, released, visited, stale>>

\* The frame ends: the events sent during the frame become readable.
EndFrame ==
    /\ phase = "Post"
    /\ svg_events' = sent
    /\ sent' = <<>>
    /\ phase' = "Update"
    /\ linker' = "idle"
    /\ setDone' = FALSE
    /\ created' = {}
    /\ modified' = {}
    /\ removed' = {}
    /\ released' = {}
    /\ visited' = {}
    /\ gone' = {}
    /\ stale' = {e \in Entities : IsStale(ents[e])}
    /\ UNCHANGED <<svgs, meshes, nextMesh, ents, ops, prevMesh, commands, todo,
                   written>>

\* ------------------------------------------------------------- specification
Next ==
    \/ LoadSvg
    \/ RemoveSvg
    \/ Spawn
    \/ SpawnChild
    \/ SetHandle
    \/ InsertMesh2d
    \/ InsertMesh3d
    \/ svg_mesh_linker
    \/ set_svg_meshes
    \/ ApplyCommands
    \/ EndFrame

Spec == Init /\ [][Next]_vars

\* A run that starts some frames after the first document was loaded: the
\* document is stored under handle 1 with its mesh in the mesh store, its
\* Created event was delivered and processed while no entity referenced it.
\* (Init reaches this state by LoadSvg and two frames; ops counts the world
\* changes made from here on.)
InitLoaded ==
    /\ svgs = [h \in Handles |-> IF h = 1 THEN 1 ELSE Absent]
    /\ meshes = {1}
    /\ nextMesh = 2
    /\ ents = [e \in Entities |-> NoEntity]
    /\ sent = <<>>
    /\ svg_events = <<>>
    /\ commands = {}
    /\ phase = "Update"
    /\ linker = "idle"
    /\ setDone = FALSE
    /\ todo = {}
    /\ ops = 0
    /\ prevMesh = [h \in Handles |-> Absent]
    /\ created = {}
    /\ modified = {}
    /\ removed = {}
    /\ released = {}
    /\ visited = {}
    /\ written = {}
    /\ gone = {}
    /\ stale = {}

SpecLoaded == InitLoaded /\ [][Next]_vars

\* ------------------------------------------------------------- properties
StageOver == phase = "Post"
InStage == phase \in {"SVG", "Post"}

\* No event for h is still waiting to be delivered
NoPending(h) == \A i \in 1..Len(sent) : sent[i].handle # h

\* Every attachment the entity carries is the current mesh of document h
Bound(e, h) == Attached(ents[e]) \subseteq {svgs[h]}

\* C1 - No stale mesh: once a Modified(h) event has been processed with the
\* document present, every 2D/3D attachment of every entity referencing h is
\* the document's current mesh, and none is the mesh h had before the change.
NoStaleMesh ==
    InStage =>
        \A h \in modified : \A e \in Matching(h) :
            /\ Bound(e, h)
            /\ prevMesh[h] \notin Attached(ents[e])

\* C1 witness: a Modified event was processed for a handle an entity is bound
\* to, the entity was repointed and the pre-modification mesh was released.
NoStaleMeshWitness ==
    /\ StageOver
    /\ \E h \in modified : \E e \in Matching(h) :
          /\ prevMesh[h] \in MeshIds
          /\ prevMesh[h] \notin meshes
          /\ svgs[h] \in Attached(ents[e])

\* C2 - Cascading removal: when the stage in which Removed(h) was processed
\* is over and its despawn commands are applied, no live entity references h.
CascadingRemoval ==
    StageOver => \A h \in removed : Matching(h) = {}

\* C2 witness: a Removed event was processed and entities were despawned
CascadingRemovalWitness ==
    /\ StageOver
    /\ removed # {}
    /\ gone # {}

\* C3 - Late-binding convergence: once set_svg_meshes has run, every entity
\* whose document reference was added or changed since its last run, and whose
\* document is present, has each attachment equal to the document's mesh.
LateBindingConvergence ==
    (InStage /\ setDone) =>
        \A e \in visited \cap Alive :
            svgs[ents[e].svg] # Absent => Bound(e, ents[e].svg)

\* C3 witness: an entity bound in this frame to a present document carries the
\* document's mesh although no Created/Modified event for it was processed.
LateBindingConvergenceWitness ==
    /\ StageOver
    /\ \E e \in visited \cap Alive :
          /\ ents[e].svg \notin created \cup modified
          /\ svgs[ents[e].svg] \in Attached(ents[e])

\* C4 - Bounded staleness: no entity ends two consecutive frames with an
\* attachment that differs from the mesh of its Ready document.
BoundedStaleness ==
    StageOver => \A e \in stale : ~IsStale(ents[e])

\* C5 - Release-after-install: while the Modified(h) loop runs and has removed
\* a mesh from the store, every entity bound to h carries the new mesh.
ReleaseAfterInstall ==
    (phase = "SVG" /\ todo # {} /\ released # {}) =>
        \A e \in Matching(Head(svg_events).handle) :
            Bound(e, Head(svg_events).handle)

\* C6 - At most one generated mesh per live document: when the stage that
\* processed Modified(h) is over, the mesh h had before the modification is
\* no longer in the mesh store.
OneMeshPerDocument ==
    StageOver =>
        \A h \in modified :
            (NoPending(h) /\ prevMesh[h] \in MeshIds) => prevMesh[h] \notin meshes

\* C7 - Release on Removed: when the stage that processed Removed(h) is over,
\* the mesh generated for the removed document is not in the mesh store.
ReleaseOnRemoved ==
    StageOver =>
        \A h \in removed :
            (NoPending(h) /\ svgs[h] = Absent) => prevMesh[h] \notin meshes

\* C8 - Unknown handle does not crash the update: svg_mesh_linker never
\* aborts, whatever events are delivered and whatever entities exist.
NoAbort ==
    phase # "Aborted"

\* C9 - Trigger convergence: for an entity that references a Ready document
\* and carries a stale attachment, the Created loop, the Modified loop and
\* set_svg_meshes (with the reference marked changed) leave the same
\* attachments, and so do the two passes run in either order.
SameAttachments(a, b) == a.mesh_2d = b.mesh_2d /\ a.mesh_3d = b.mesh_3d

TriggerConvergence ==
    \A e \in Alive :
        IsStale(ents[e]) =>
            LET h == ents[e].svg
                late == SetMeshes(ents, {e})
            IN /\ SameAttachments(CreatedTable(ents, h)[e], late[e])
               /\ SameAttachments(ModifiedTable(ents, h)[e], late[e])
               /\ SameAttachments(SetMeshes(ModifiedTable(ents, h), {e})[e],
                                  ModifiedTable(late, h)[e])
               /\ SameAttachments(SetMeshes(CreatedTable(ents, h), {e})[e],
                                  CreatedTable(late, h)[e])
               /\ Attached(late[e]) = {svgs[h]}

\* C9 witness: both triggers are pending for a stale entity in one stage: its
\* reference is marked changed and a Created/Modified event for its document
\* heads the event queue, while it still carries another document's mesh.
TriggerConvergenceWitness ==
    /\ phase = "Update"
    /\ linker = "idle"
    /\ ~setDone
    /\ svg_events # <<>>
    /\ \E e \in ChangedQuery :
          /\ IsStale(ents[e])
          /\ ents[e].mesh_2d \in MeshIds
          /\ Head(svg_events).handle = ents[e].svg
          /\ Head(svg_events).kind \in {"Created", "Modified"}

\* C10 - Strict pass ordering: set_svg_meshes has run in a stage only if
\* svg_mesh_linker has run to completion in it before.
StrictPassOrdering ==
    (phase = "SVG" /\ setDone) => linker = "done"

\* C11 - Created binds every already-bound entity: once Created(h) has been
\* processed with document h present, every 2D/3D attachment of every entity
\* referencing h is h's current mesh, whatever the attachment held before.
CreatedBindsAll ==
    InStage =>
        \A h \in created : \A e \in Matching(h) : Bound(e, h)

\* C11 witness: an entity whose attachment differed from its document's mesh
\* when the last frame ended was bound by the Created handler alone: the
\* late-binding pass has not run and no Modified event was processed.
CreatedBindsAllWitness ==
    /\ phase = "SVG"
    /\ ~setDone
    /\ \E h \in created \ modified : \E e \in Matching(h) \cap stale :
          Attached(ents[e]) = {svgs[h]}

\* C12 - Modified coalescing: of several Modified(h) events delivered in one
\* tick, the first one processed leaves every entity referencing h on the
\* document's latest mesh, and each later one changes no attachment and
\* leaves the mesh store as it is.
ModifiedCoalescing ==
    [][(svg_events # <<>> /\ Head(svg_events).kind = "Modified" /\ phase' = "SVG") =>
          LET h == Head(svg_events).handle
          IN /\ h \in modified' =>
                   \A e \in Matching(h) : Attached(ents'[e]) \subseteq {svgs[h]}
             /\ h \in modified => (ents' = ents /\ meshes' = meshes)]_vars

\* C12 witness: the first Modified(h) of the batch repointed an entity and
\* released the old mesh, and a further Modified(h) is next to be processed.
ModifiedCoalescingWitness ==
    /\ phase = "SVG"
    /\ linker = "running"
    /\ svg_events # <<>>
    /\ Head(svg_events).kind = "Modified"
    /\ Head(svg_events).handle \in modified
    /\ \E e \in Matching(Head(svg_events).handle) :
          /\ Attached(ents[e]) = {svgs[ents[e].svg]}
          /\ released # {}

\* C13 - The mesh store is mutated only by the asset-event pass: a step of
\* Stage::SVG that changes the mesh store is not set_svg_meshes, happens while
\* a Modified event is being processed (never Created or Removed), only
\* removes entries, and removes only handles that were attached to the one
\* entity it repoints.
MeshStoreFrame ==
    [][(phase' \in {"SVG", "Post"} /\ meshes' # meshes) =>
          /\ setDone' = setDone
          /\ phase' = "SVG"
          /\ svg_events # <<>>
          /\ Head(svg_events).kind = "Modified"
          /\ meshes' \subseteq meshes
          /\ \E e \in Matching(Head(svg_events).handle) :
                /\ (meshes \ meshes') \subseteq Attached(ents[e])
                /\ (meshes \ meshes') \cap Attached(ents'[e]) = {}
                /\ \A o \in Entities \ {e} : ents'[o] = ents[o]]_vars

\* C13 witness: both systems have run in the stage and the Modified handler
\* has removed a mesh from the store.
MeshStoreFrameWitness ==
    /\ phase = "SVG"
    /\ setDone
    /\ linker = "done"
    /\ modified # {}
    /\ released # {}
    /\ released \cap meshes = {}

\* C14 - Late-binding is a no-op for a document that is not present: a run
\* of set_svg_meshes leaves both attachments of an entity whose document is
\* absent from the asset store as they were and assigns to neither, and it
\* does not assign to an attachment that already is the document's mesh.
LateBindingNoOp ==
    [][(~setDone /\ setDone') =>
          \A e \in Alive :
              LET h == ents[e].svg
              IN /\ svgs[h] = Absent =>
                       /\ SameAttachments(ents'[e], ents[e])
                       /\ written' \cap ({e} \X {"2d", "3d"}) = {}
                 /\ ents[e].mesh_2d = svgs[h] =>
                       /\ ents'[e].mesh_2d = ents[e].mesh_2d
                       /\ <<e, "2d">> \notin written'
                 /\ ents[e].mesh_3d = svgs[h] =>
                       /\ ents'[e].mesh_3d = ents[e].mesh_3d
                       /\ <<e, "3d">> \notin written']_vars

\* C14 witness: set_svg_meshes has visited an entity that carries an
\* attachment and whose document is absent, and another visited entity whose
\* attachment already was its document's mesh.
LateBindingNoOpWitness ==
    /\ phase = "SVG"
    /\ setDone
    /\ \E e \in visited \cap Alive :
          /\ svgs[ents[e].svg] = Absent
          /\ Attached(ents[e]) # {}
    /\ \E e \in visited \cap Alive :
          /\ svgs[ents[e].svg] \in Attached(ents[e])
          /\ written \cap ({e} \X {"2d", "3d"}) = {}

\* C15 - Per-handle arrival order: within a tick svg_mesh_linker takes the
\* delivered events from the front of the queue, one per handler run, applies
\* the effect of exactly that event (Created binds, Modified repoints, Removed
\* commands the despawn), and is done only when every event is consumed;
\* set_svg_meshes consumes none.
ArrivalOrder ==
    [][phase' = "SVG" =>
          /\ setDone' # setDone => svg_events' = svg_events
          /\ (linker' = "done" /\ setDone' = setDone) => svg_events' = <<>>
          /\ svg_events' # svg_events =>
                /\ svg_events # <<>>
                /\ svg_events' = Tail(svg_events)
                /\ LET h == Head(svg_events).handle
                       kind == Head(svg_events).kind
                   IN /\ kind = "Created" =>
                            /\ ents' = CreatedTable(ents, h)
                            /\ meshes' = meshes
                            /\ commands' = commands
                      /\ kind = "Modified" =>
                            /\ \A e \in Matching(h) :
                                  Attached(ents'[e]) \subseteq {svgs[h]}
                            /\ commands' = commands
                      /\ kind = "Removed" =>
                            /\ commands' = commands \cup Matching(h)
                            /\ ents' = ents
                            /\ meshes' = meshes]_vars

\* C15 witness: Created(h) and then Modified(h) were delivered in one batch
\* for a handle an entity references; Created(h) has been consumed and has
\* bound the entity, and Modified(h) is now at the front of the queue.
ArrivalOrderWitness ==
    /\ phase = "SVG"
    /\ linker = "running"
    /\ svg_events # <<>>
    /\ Head(svg_events).kind = "Modified"
    /\ Head(svg_events).handle \in created \ modified
    /\ \E e \in Matching(Head(svg_events).handle) :
          Attached(ents[e]) = {svgs[ents[e].svg]}

\* C16 - No live mesh is released: a mesh the Modified handler has removed
\* from the mesh store is not the current mesh of any document in the asset
\* store, and no entity whose document is present carries its document's
\* mesh while that mesh is absent from the mesh store.
NoLiveMeshReleased ==
    InStage =>
        /\ \A h \in Handles : svgs[h] \notin released
        /\ \A e \in Alive :
              (svgs[ents[e].svg] \in Attached(ents[e])) => svgs[ents[e].svg] \in meshes

\* C17 - Event handling is scoped to the affected handle: the handler of
\* Created(h) or Modified(h) leaves every entity that does not reference h as
\* it was; the handler of Removed(h) changes no entity, no attachment and no
\* mesh-store entry and commands the despawn of exactly the entities that
\* reference h; and when the stage's commands are applied, exactly the
\* entities referencing a removed handle and their descendants are despawned,
\* every other entity and the mesh store being left as they were.
ScopedHandling ==
    [][/\ (phase' = "SVG" /\ setDone' = setDone /\ svg_events # <<>>) =>
             LET h == Head(svg_events).handle
                 kind == Head(svg_events).kind
             IN /\ kind \in {"Created", "Modified"} =>
                      \A e \in Entities \ Matching(h) : ents'[e] = ents[e]
                /\ kind = "Removed" =>
                      /\ ents' = ents
                      /\ meshes' = meshes
                      /\ commands' = commands \cup Matching(h)
       /\ (phase = "SVG" /\ phase' = "Post") =>
             /\ gone' = Subtree(UNION {Matching(h) : h \in removed})
             /\ \A e \in gone' : ~ents'[e].alive
             /\ \A e \in Entities \ gone' : ents'[e] = ents[e]
             /\ meshes' = meshes]_vars

\* C17 witness: a Removed event was processed and its entities despawned,
\* while an entity that references another handle and carries an attachment
\* is still alive.
ScopedHandlingWitness ==
    /\ StageOver
    /\ removed # {}
    /\ gone # {}
    /\ \E e \in Alive :
          /\ ents[e].svg \notin removed
          /\ Attached(ents[e]) # {}

\* C18 - Attachment components are only updated, never created: no step of
\* Stage::SVG gives a live entity a 2D or 3D attachment component it did not
\* have before the step.
NeverInserts ==
    [][phase' \in {"SVG", "Post"} =>
          \A e \in Alive :
              /\ ents[e].mesh_2d = NoComp => ents'[e].mesh_2d = NoComp
              /\ ents[e].mesh_3d = NoComp => ents'[e].mesh_3d = NoComp]_vars

\* C18 witness: an entity without any attachment component references a
\* present document, its Created or Modified event was processed in this
\* stage and set_svg_meshes visited it, and it still has no attachment.
NeverInsertsWitness ==
    /\ StageOver
    /\ \E e \in visited \cap Alive :
          /\ svgs[ents[e].svg] # Absent
          /\ ents[e].svg \in created \cup modified
          /\ Attached(ents[e]) = {}

====
